---- MODULE Spec2Model ----
(***************************************************************************)
(* USB descriptor model and enumeration protocol of src/src/usb.rs:        *)
(* DescriptorIterator, the request_* enumeration sequences and             *)
(* pick_interface_with_triple.                                             *)
(***************************************************************************)
EXTENDS Integers, Sequences, FiniteSets, TLC

\* ------------------------------------------------------------------ bounds
\* Number of records a device-provided descriptor chain is built from.
MaxRecords == 3
\* Number of times the model lets next() yield from a cursor that did not move.
MaxRepeat == 2
\* Length of the descriptor list handed to pick_interface_with_triple.
MaxDescs == 5

\* ------------------------------------------------- UsbDescriptorType (u8)
TypeDevice == 1
TypeConfig == 2
TypeString == 3
TypeInterface == 4
TypeEndpoint == 5
TypeHid == 33
TypeReport == 34

\* ------------------------------------------- size_of::<T>() of the records
SizeOfUsbDeviceDescriptor == 18
SizeOfConfigDescriptor == 9
SizeOfInterfaceDescriptor == 9
SizeOfEndpointDescriptor == 7
SizeOfHidDescriptor == 9
\* Buffer sizes the enumeration sequences allocate.
StringBufSize == 128
StringZeroBufSize == 8
HidReportBufSize == 8

\* ----------------------------------------------------------------- helpers
None == <<>>
Some(x) == <<x>>
IsSome(o) == Len(o) = 1
Unwrap(o) == o[1]

Ok(v) == [ok |-> TRUE, val |-> v, err |-> ""]
Err(e) == [ok |-> FALSE, val |-> <<>>, err |-> e]

\* vec![b; n]
Fill(n, b) == [i \in 1..n |-> b]

RECURSIVE Concat(_)
Concat(ss) == IF ss = <<>> THEN <<>> ELSE Head(ss) \o Concat(Tail(ss))

\* Sliceable::copy_from_slice: fails when the data is shorter than the record,
\* otherwise copies the first size_of::<Self>() bytes.
copy_from_slice(size, data) ==
    IF size > Len(data) THEN Err("data is too short")
    ELSE Ok(SubSeq(data, 1, size))

\* ConfigDescriptor::total_length: the little-endian u16 at bytes 2..3.
total_length(cfg) == cfg[3] + 256 * cfg[4]

\* InterfaceDescriptor::triple: (interface_class, subclass, protocol).
triple_of(e) == <<e.bytes[6], e.bytes[7], e.bytes[8]>>

\* --------------------------------------------- what a device may send back
\* A chunk is what the device wrote for one record: declared length d, type
\* tag t, and the p bytes physically present (p # d models a corrupt length
\* field or a truncated record).  Bytes after the 2-byte prefix are zero.
\* The 255-byte record makes chains longer than 255 bytes, so that the high
\* byte of total_length is used.
Chunk(d, t, p) == SubSeq(<<d, t>> \o Fill(p, 0), 1, p)

WellFormedChunks ==
    { <<9, TypeConfig, 9>>, <<9, TypeInterface, 9>>, <<10, TypeInterface, 10>>,
      <<7, TypeEndpoint, 7>>, <<9, TypeHid, 9>>, <<2, 48, 2>>,
      <<255, 48, 255>> }

MalformedChunks ==
    { <<0, TypeConfig, 9>>, <<0, TypeInterface, 3>>, <<9, TypeInterface, 3>>,
      <<9, TypeConfig, 1>>, <<2, TypeConfig, 9>>, <<1, 48, 2>>, <<12, 48, 2>> }

Chunks == WellFormedChunks \cup MalformedChunks

ChunkLists == UNION { [1..n -> Chunks] : n \in 0..MaxRecords }

Build(rs) == Concat([i \in 1..Len(rs) |-> Chunk(rs[i][1], rs[i][2], rs[i][3])])

\* Transport errors of the controller's descriptor request.
Errs == {"xhc_error_1", "xhc_error_2"}

VARIABLES
    op,           \* the enumeration operation running ("idle" before any)
    pc,           \* its position: idle, await1, await2, collect, done, panic
    reqs,         \* requests issued to the controller so far, in order
    resps,        \* completion of each issued request, in order
    buf,          \* the buffer the DescriptorIterator walks
    recs,         \* the chunks the device built buf from
    index,        \* DescriptorIterator.index
    descriptors,  \* what next() has yielded so far (the Vec being collected)
    nread,        \* bytes next() read from the cursor in its last call
    lastlen,      \* desc_len of the record next() last yielded, as Some/None
    lastindex,    \* cursor before the last call of next()
    truncated,    \* a recognized record failed to decode in next()
    repeats,      \* consecutive yields that left the cursor where it was
    firstPass,    \* the sequence a previous decode of buf collected
    result,       \* the operation's return value, None while running
    input,        \* pick_interface_with_triple: descriptors argument
    triple,       \* pick_interface_with_triple: triple argument
    picked,       \* pick_interface_with_triple: None, or Some(return value)
    bvalue,       \* extract_bits: value, a u64 as the set of its one bits
    bbytes,       \* extract_bits_from_le_bytes: bytes
    bshift,       \* shift argument of both functions
    bwidth,       \* width argument of both functions
    bitsOut,      \* None, or Some(return value of extract_bits)
    leOut,        \* None, or Some(return value of extract_bits_from_le_bytes)
    overflow_checks, \* the build traps on integer overflow (debug profile)
    xlength,      \* Xsdt.header.length
    xmem,         \* headers the pointer slots after the XSDT header lead to
    xop,          \* the Xsdt operation running: iter, find_table, hpet, mcfg
    xsig,         \* the signature find_table looks for
    xindex,       \* XsdtIterator.index
    xout,         \* header references the iterator has yielded
    xslots,       \* pointer slots the iterator has read
    xpc,          \* idle, iter, done or panic
    xnones,       \* calls of next() that returned None
    xfirst,       \* the sequence a previous iter() of the same table yielded
    xresult,      \* None, or Some(return value of find_table, hpet or mcfg)
    mlength,      \* AcpiMcfgDescriptor.header.length
    mindex,       \* index argument of AcpiMcfgDescriptor::entry
    mentry,       \* None, or Some(outcome of entry(mindex))
    gid,          \* GenericAddress.address_space_id
    gaddr,        \* GenericAddress.address
    gres,         \* None, or Some(return of address_in_memory_space)
    hres,         \* None, or Some(return of AcpiHpetDescriptor::base_address)
    derefs,       \* addresses read or written through a pointer made from gaddr
    rx, ry, rw, rh, \* arguments of Rect::new
    rect,         \* None, or Some(return value of Rect::new)
    rinter,       \* None, or Some(outcome of rect.intersection(&rect))
    rpoint,       \* None, or Some(outcome of rect.contains_point(..))
    spc,          \* per device slot: position of its enumeration sequence
    sop,          \* per device slot: the request_* function it runs
    sreqs,        \* per device slot: requests issued on its control channel
    sresps,       \* per device slot: completions of those requests
    sresult,      \* per device slot: return value, None while running
    halted,       \* the executor no longer polls any task
    ns1, ne1,     \* arguments of the first ScalarRange::new
    ns2, ne2,     \* arguments of the second ScalarRange::new
    ra, rb,       \* None, or Some(return value of that ScalarRange::new)
    rinters,      \* per pair "ab", "ba", "aa": None or Some(intersection)
    bw, bh,       \* Bitmap::width() and height() of the writer's bitmap
    bppl,         \* Bitmap::pixels_per_line()
    cursor_x,     \* BitmapTextWriter.cursor_x
    cursor_y,     \* BitmapTextWriter.cursor_y
    writes,       \* calls of write_str made
    wres,         \* None, or Some(return value of the last write_str)
    trail,        \* the cursor after each character of the last write_str
    fills         \* the fill_rect calls of the last write_str

iterVars == <<buf, recs, index, descriptors, nread, lastlen, lastindex,
              truncated, repeats, firstPass>>
pickVars == <<input, triple, picked>>
bitsVars == <<bvalue, bbytes, bshift, bwidth, bitsOut, leOut>>
xsdtVars == <<xlength, xmem, xop, xsig, xindex, xout, xslots, xpc, xnones,
              xfirst, xresult>>
tableVars == <<mlength, mindex, mentry, gid, gaddr, gres, hres, derefs>>
acpiVars == <<overflow_checks, xsdtVars, tableVars>>
rectVars == <<rx, ry, rw, rh, rect, rinter, rpoint>>
slotVars == <<spc, sop, sreqs, sresps, sresult, halted>>
usbVars == <<op, pc, reqs, resps, result, iterVars, pickVars>>
rangeVars == <<ns1, ne1, ns2, ne2, ra, rb, rinters>>
writerVars == <<bw, bh, bppl, cursor_x, cursor_y, writes, wres, trail, fills>>
gfxVars == <<rangeVars, writerVars>>
libVars == <<bitsVars, acpiVars, rectVars, slotVars, gfxVars>>
vars == <<op, pc, reqs, resps, result, iterVars, pickVars, libVars>>


\* ------------------------------------------------------ DescriptorIterator
\* One arm of the match on desc_type: T::copy_from_slice(buf).ok()? wrapped in
\* its variant; None is the early return of `?`.
Variant(kind, size, rest) ==
    LET r == copy_from_slice(size, rest)
    IN  IF r.ok THEN Some([kind |-> kind, bytes |-> r.val]) ELSE None

\* Mutant of decode: the Hid arm is missing, so 0x21 falls through to Unknown.
decode_without_hid(rest) ==
    LET desc_len == rest[1]
        desc_type == rest[2]
    IN  CASE desc_type = TypeConfig ->
               Variant("Config", SizeOfConfigDescriptor, rest)
          [] desc_type = TypeInterface ->
               Variant("Interface", SizeOfInterfaceDescriptor, rest)
          [] desc_type = TypeEndpoint ->
               Variant("Endpoint", SizeOfEndpointDescriptor, rest)
          [] OTHER ->
               Some([kind |-> "Unknown", bytes |-> <<desc_len, desc_type>>])

\* The match on desc_type.  Unknown carries only (desc_len, desc_type).
decode(rest) ==
    LET desc_len == rest[1]
        desc_type == rest[2]
    IN  CASE desc_type = TypeConfig ->
               Variant("Config", SizeOfConfigDescriptor, rest)
          [] desc_type = TypeInterface ->
               Variant("Interface", SizeOfInterfaceDescriptor, rest)
          [] desc_type = TypeEndpoint ->
               Variant("Endpoint", SizeOfEndpointDescriptor, rest)
          [] desc_type = TypeHid ->
               Variant("Hid", SizeOfHidDescriptor, rest)
          [] OTHER ->
               Some([kind |-> "Unknown", bytes |-> <<desc_len, desc_type>>])

\* Mutant of advance: the cursor is not moved.
advance_forgotten(idx, desc_len) == idx

\* self.index += desc_len as usize
advance(idx, desc_len) == idx + desc_len

\* DescriptorIterator::next on buffer b with cursor idx: what it returns
\* (out), the new cursor, the bytes it read from the cursor and whether a
\* recognized record failed to decode.  buf[1] on a one-byte slice panics.
next(b, idx) ==
    IF idx >= Len(b)
    THEN [out |-> "None", desc |-> None, index |-> idx, nread |-> 0,
          len |-> None, truncated |-> FALSE]
    ELSE LET rest == SubSeq(b, idx + 1, Len(b))
         IN  IF Len(rest) < 2
             THEN [out |-> "panic", desc |-> None, index |-> idx, nread |-> 1,
                   len |-> None, truncated |-> FALSE]
             ELSE LET d == decode(rest)
                  IN  IF IsSome(d)
                      THEN [out |-> "Some", desc |-> d,
                            index |-> advance(idx, rest[1]),
                            nread |-> IF Len(Unwrap(d).bytes) > 2
                                      THEN Len(Unwrap(d).bytes) ELSE 2,
                            len |-> Some(rest[1]), truncated |-> FALSE]
                      ELSE [out |-> "None", desc |-> None, index |-> idx,
                            nread |-> 2, len |-> None, truncated |-> TRUE]

\* DescriptorIterator::new(&buf)
NewIterator(bytes, rs) ==
    /\ buf' = bytes
    /\ recs' = rs
    /\ index' = 0
    /\ descriptors' = <<>>
    /\ nread' = 0
    /\ lastlen' = None
    /\ lastindex' = 0
    /\ truncated' = FALSE
    /\ repeats' = 0

\* One call of next() made by iter.collect(); when it returns None the
\* collected Vec is returned as Ok(descriptors).
IterNext ==
    /\ pc = "collect"
    /\ repeats < MaxRepeat
    /\ LET r == next(buf, index)
       IN  /\ index' = r.index
           /\ nread' = r.nread
           /\ lastlen' = r.len
           /\ lastindex' = index
           /\ truncated' = (truncated \/ r.truncated)
           /\ descriptors' = IF r.out = "Some"
                             THEN Append(descriptors, Unwrap(r.desc))
                             ELSE descriptors
           /\ repeats' = IF r.out = "Some" /\ r.index = index
                         THEN repeats + 1 ELSE 0
           /\ pc' = CASE r.out = "Some" -> "collect"
                      [] r.out = "None" -> "done"
                      [] OTHER -> "panic"
           /\ result' = IF r.out = "None" THEN Some(Ok(descriptors)) ELSE None
    /\ UNCHANGED <<op, reqs, resps, buf, recs, firstPass, pickVars, libVars>>

\* A direct user of the iterator: DescriptorIterator::new(buf).collect().
StartDecode ==
    /\ pc = "idle"
    /\ \E rs \in ChunkLists : NewIterator(Build(rs), rs)
    /\ op' = "decode"
    /\ pc' = "collect"
    /\ UNCHANGED <<reqs, resps, firstPass, result, pickVars, libVars>>

\* The same buffer decoded a second time with a fresh iterator.
Redecode ==
    /\ op = "decode"
    /\ pc = "done"
    /\ firstPass = None
    /\ firstPass' = Some(descriptors)
    /\ NewIterator(buf, recs)
    /\ pc' = "collect"
    /\ result' = None
    /\ UNCHANGED <<op, reqs, resps, pickVars, libVars>>


\* --------------------------------------------- Descriptor Enumeration Protocol
\* A call of the controller capability: xhc.request_descriptor,
\* xhc.request_report_bytes or xhc.request_descriptor_for_interface, with the
\* length of the destination buffer handed to it.
Req(fn, desc_type, desc_index, lang_id, size) ==
    [fn |-> fn, desc_type |-> desc_type, desc_index |-> desc_index,
     lang_id |-> lang_id, size |-> size]

\* Issue a request and suspend at its .await.
Issue(o, r, at) ==
    /\ op' = o
    /\ reqs' = Append(reqs, r)
    /\ pc' = at
    /\ UNCHANGED <<resps, result, iterVars, pickVars, libVars>>

\* Mutant of Propagate: a failed request is issued again instead of returning.
PropagateRetry(e) ==
    /\ resps' = Append(resps, Err(e))
    /\ reqs' = Append(reqs, reqs[Len(reqs)])
    /\ UNCHANGED <<op, pc, result, iterVars, pickVars, libVars>>

\* `.await?` on a failed request: the error is the function's return value.
Propagate(e) ==
    /\ resps' = Append(resps, Err(e))
    /\ result' = Some(Err(e))
    /\ pc' = "done"
    /\ UNCHANGED <<op, reqs, iterVars, pickVars, libVars>>

\* A request that completed with Ok(()) and is the function's last: return v.
Return(bytes, v) ==
    /\ resps' = Append(resps, Ok(bytes))
    /\ result' = Some(v)
    /\ pc' = "done"
    /\ UNCHANGED <<op, reqs, iterVars, pickVars, libVars>>

\* What the controller may leave in a destination buffer of n bytes.
Contents(n) == { Fill(n, b) : b \in {0, 7} }

\* String::from_utf8_lossy(&buf[2..]).to_string().replace('\0', ""):
\* a byte that is no UTF-8 (0xFF) becomes U+FFFD, NULs are dropped.
lossy_string(b) ==
    LET chars == [i \in 1..(Len(b) - 2) |->
                     IF b[i + 2] < 128 THEN b[i + 2] ELSE 65533]
    IN  SelectSeq(chars, LAMBDA c : c # 0)

\* String descriptors a device may answer with: k characters c, NUL padded.
StringContents ==
    { <<2 + k, TypeString>> \o Fill(k, c) \o Fill(StringBufSize - 2 - k, 0) :
        k \in {0, 2}, c \in {65, 255} }

request_device_descriptor ==
    /\ pc = "idle"
    /\ Issue("device",
             Req("request_descriptor", TypeDevice, 0, 0,
                 SizeOfUsbDeviceDescriptor), "await1")

request_device_descriptor_resume ==
    /\ op = "device" /\ pc = "await1"
    /\ \/ \E e \in Errs : Propagate(e)
       \/ \E b \in Contents(reqs[1].size) :
             LET d == copy_from_slice(SizeOfUsbDeviceDescriptor, b)
             IN  Return(b, d)

request_string_descriptor ==
    /\ pc = "idle"
    /\ \E lang_id \in {0, 1033}, desc_index \in {1, 2} :
          Issue("string",
                Req("request_descriptor", TypeString, desc_index, lang_id,
                    StringBufSize), "await1")

request_string_descriptor_resume ==
    /\ op = "string" /\ pc = "await1"
    /\ \/ \E e \in Errs : Propagate(e)
       \/ \E b \in StringContents : Return(b, Ok(lossy_string(b)))

request_string_descriptor_zero ==
    /\ pc = "idle"
    /\ Issue("string_zero",
             Req("request_descriptor", TypeString, 0, 0, StringZeroBufSize),
             "await1")

request_string_descriptor_zero_resume ==
    /\ op = "string_zero" /\ pc = "await1"
    /\ \/ \E e \in Errs : Propagate(e)
       \/ \E b \in Contents(reqs[1].size) : Return(b, Ok(b))

request_hid_report ==
    /\ pc = "idle"
    /\ Issue("hid_report",
             Req("request_report_bytes", TypeReport, 0, 0, HidReportBufSize),
             "await1")

request_hid_report_resume ==
    /\ op = "hid_report" /\ pc = "await1"
    /\ \/ \E e \in Errs : Propagate(e)
       \/ \E b \in Contents(reqs[1].size) : Return(b, Ok(b))

request_hid_report_descriptor ==
    /\ pc = "idle"
    /\ \E interface_number \in {0, 1}, desc_size \in {0, 5} :
          Issue("hid_report_descriptor",
                Req("request_descriptor_for_interface", TypeReport, 0,
                    interface_number, desc_size), "await1")

request_hid_report_descriptor_resume ==
    /\ op = "hid_report_descriptor" /\ pc = "await1"
    /\ \/ \E e \in Errs : Propagate(e)
       \/ \E b \in Contents(reqs[1].size) : Return(b, Ok(b))

\* Config headers a device may answer the first request with: the 9-byte
\* record whose total_length field is tl.
ConfigHeader(tl) ==
    <<SizeOfConfigDescriptor, TypeConfig, tl % 256, tl \div 256, 1, 1, 0, 0, 0>>

TotalLengths == { Len(Build(rs)) : rs \in ChunkLists }

\* Phase 1: request just the fixed Config header.
request_config_descriptor_and_rest ==
    /\ pc = "idle"
    /\ Issue("config",
             Req("request_descriptor", TypeConfig, 0, 0,
                 SizeOfConfigDescriptor), "await1")

\* Mutant of second_size: the buffer is sized by desc_length (byte 0) instead
\* of total_length.
second_size_desc_length(header) == header[1]

\* The size of the second buffer: vec![0; config_descriptor.total_length()].
second_size(header) == total_length(header)

\* Header arrived: decode it, allocate total_length bytes, request again.
request_config_descriptor_and_rest_resume1 ==
    /\ op = "config" /\ pc = "await1"
    /\ \/ \E e \in Errs : Propagate(e)
       \/ \E tl \in TotalLengths :
             LET b == ConfigHeader(tl)
                 config_descriptor == copy_from_slice(SizeOfConfigDescriptor, b)
             IN  /\ resps' = Append(resps, Ok(b))
                 /\ IF config_descriptor.ok
                    THEN /\ reqs' = Append(reqs,
                               Req("request_descriptor", TypeConfig, 0, 0,
                                   second_size(config_descriptor.val)))
                         /\ pc' = "await2"
                         /\ result' = None
                    ELSE /\ reqs' = reqs
                         /\ pc' = "done"
                         /\ result' = Some(Err(config_descriptor.err))
                 /\ UNCHANGED <<op, iterVars, pickVars, libVars>>

\* Full chain arrived: DescriptorIterator::new(&buf), then collect().
request_config_descriptor_and_rest_resume2 ==
    /\ op = "config" /\ pc = "await2"
    /\ \/ \E e \in Errs : Propagate(e)
       \/ \E rs \in ChunkLists :
             /\ Len(Build(rs)) = reqs[2].size
             /\ resps' = Append(resps, Ok(Build(rs)))
             /\ NewIterator(Build(rs), rs)
             /\ pc' = "collect"
             /\ UNCHANGED <<op, reqs, result, firstPass, pickVars, libVars>>


\* ------------------------------------------------ pick_interface_with_triple
\* The three locals of the scan, and whether the loop has hit `break`.
PickStart ==
    [config |-> None, interface |-> None, desc_list |-> <<>>, broke |-> FALSE]

\* The UsbDescriptor::Interface arm: if triple == e.triple() the interface is
\* (re)assigned.
adopt(st, e, t) ==
    IF t = triple_of(e) THEN [st EXCEPT !.interface = Some(e)] ELSE st

\* The UsbDescriptor::Config arm.
on_config(st, e) ==
    IF IsSome(st.interface)
    THEN [st EXCEPT !.broke = TRUE]
    ELSE [st EXCEPT !.config = Some(e), !.desc_list = <<>>]

\* The catch-all arm.
on_other(st, e) ==
    IF IsSome(st.interface)
    THEN [st EXCEPT !.desc_list = Append(@, e)]
    ELSE st

\* The body of `for d in descriptors`.
PickStep(st, d, t) ==
    CASE d.kind = "Config" -> on_config(st, d)
      [] d.kind = "Interface" -> adopt(st, d, t)
      [] OTHER -> on_other(st, d)

RECURSIVE PickLoop(_, _, _, _)
PickLoop(ds, i, st, t) ==
    IF i > Len(ds) \/ st.broke THEN st
    ELSE PickLoop(ds, i + 1, PickStep(st, ds[i], t), t)

pick_interface_with_triple(ds, t) ==
    LET st == PickLoop(ds, 1, PickStart, t)
    IN  IF IsSome(st.config) /\ IsSome(st.interface)
        THEN Some([config |-> Unwrap(st.config),
                   interface |-> Unwrap(st.interface),
                   desc_list |-> st.desc_list])
        ELSE None

\* Decoded descriptors as DescriptorIterator yields them.
ConfigDesc(v) ==
    [kind |-> "Config", bytes |-> <<9, TypeConfig, 9, 0, 1, v, 0, 0, 0>>]
InterfaceDesc(n, c) ==
    [kind |-> "Interface", bytes |-> <<9, TypeInterface, n, 0, 1, c, c, c, 0>>]
EndpointDesc(a) ==
    [kind |-> "Endpoint", bytes |-> <<7, TypeEndpoint, a, 3, 8, 0, 1>>]
UnknownDesc(l, t) == [kind |-> "Unknown", bytes |-> <<l, t>>]

PickAlphabet ==
    { ConfigDesc(1), ConfigDesc(2), InterfaceDesc(0, 1), InterfaceDesc(0, 2),
      InterfaceDesc(1, 2), EndpointDesc(129), UnknownDesc(2, 48) }

PickInputs == UNION { [1..n -> PickAlphabet] : n \in 0..MaxDescs }

PickTriples == { <<2, 2, 2>>, <<9, 9, 9>> }

\* One call of pick_interface_with_triple(&input, triple).
Pick ==
    /\ picked = None
    /\ picked' = Some(pick_interface_with_triple(input, triple))
    /\ UNCHANGED <<op, pc, reqs, resps, result, iterVars, input, triple,
                   libVars>>

\* -------------------------------------------------------------- src/bits.rs
\* A u64 is the set of the positions of its one bits, bit 0 the lowest; the
\* values of interest reach 2^63.
min(a, b) == IF a < b THEN a ELSE b

\* (1u64 << n) - 1 for n in 0..63: the n low bits.
low_mask(n) == 0 .. (n - 1)

\* value.checked_shr(shift as u32).unwrap_or(0): None, hence 0, when the shift
\* is 64 or more.  `shift as u32` is the identity for the shifts drawn here.
checked_shr(v, s) ==
    IF s >= 64 THEN {} ELSE {b - s : b \in {c \in v : c >= s}}

\* extract_bits::<u64>: u64::from and try_into are the identity for T = u64.
extract_bits(value, shift, width) ==
    LET mask == low_mask(min(63, width))
    IN  checked_shr(value, shift) \cap mask

\* The one bits of a u8.
BitsOfByte(v) == {k \in 0..7 : (v \div (2^k)) % 2 = 1}

\* value |= ((v << (i * 8)) >> bit_shift) as u64, over the bytes in range:
\* the shift is made in u128 and `as u64` keeps the 64 low bits.
accumulate(bytes_in_range, bit_shift) ==
    UNION { { p \in 0..63 :
                \E k \in BitsOfByte(bytes_in_range[i + 1]) :
                    /\ i * 8 + k < 128
                    /\ p = i * 8 + k - bit_shift }
            : i \in 0 .. (Len(bytes_in_range) - 1) }

\* extract_bits_from_le_bytes; bytes.get(range) is None when the range ends
\* after the last byte.
extract_bits_from_le_bytes(bytes, shift, width) ==
    IF width = 0 THEN None
    ELSE LET start == shift \div 8
             end == (shift + width + 7) \div 8
             bit_shift == shift - start * 8
         IN  IF end > Len(bytes) \/ start > end THEN None
             ELSE Some(extract_bits(
                      accumulate(SubSeq(bytes, start + 1, end), bit_shift),
                      0, width))

\* Arguments the two functions are applied to.
BitValues ==
    { {}, {0}, {63}, 0..63, {31, 32}, {3, 4, 5, 60, 61, 62, 63},
      {b \in 0..63 : b % 2 = 1} }
Shifts == {0, 1, 4, 8, 63, 64, 65}
Widths == {0, 1, 4, 8, 63, 64}
ByteSeqs ==
    { <<>>, <<165>>, <<165, 255>>, <<1, 2, 3>>,
      Fill(8, 255), Fill(9, 255), Fill(7, 0) \o <<128>>,
      Fill(8, 0) \o <<15>>, Fill(16, 165) }

\* A call of extract_bits(bvalue, bshift, bwidth).
ExtractBits ==
    /\ bitsOut = None
    /\ bitsOut' = Some(extract_bits(bvalue, bshift, bwidth))
    /\ UNCHANGED <<usbVars, gfxVars,
                   bvalue, bbytes, bshift, bwidth, leOut, acpiVars,
                   rectVars, slotVars>>

\* A call of extract_bits_from_le_bytes(&bbytes, bshift, bwidth).
ExtractBitsFromLeBytes ==
    /\ leOut = None
    /\ leOut' = Some(extract_bits_from_le_bytes(bbytes, bshift, bwidth))
    /\ UNCHANGED <<usbVars, gfxVars,
                   bvalue, bbytes, bshift, bwidth, bitsOut, acpiVars,
                   rectVars, slotVars>>

\* -------------------------------------------------------------- src/acpi.rs
\* size_of::<SystemDescriptionTableHeader>() and size_of::<Xsdt>()
SizeOfTableHeader == 36
\* size_of::<*const u8>()
SizeOfPointer == 8
\* size_of::<AcpiMcfgDescriptor>()
SizeOfMcfgDescriptor == 44
\* size_of::<EcamEntry>()
SizeOfEcamEntry == 16

\* Number of pointer slots of the longest XSDT drawn.
MaxSlots == 3
\* Number of times next() is called again after it returned None.
MaxNones == 2
\* Number of entries of the longest MCFG table drawn.
MaxEntries == 2

\* A usize that may have wrapped: [big |-> FALSE, lo |-> n] is n, and
\* [big |-> TRUE, lo |-> n], with n < 0, is 2^64 / d + n, where d is the
\* product of the divisors applied since the wrap (1, 8 or 16).
\* usize a - b: a negative difference panics when the build checks overflow
\* and wraps modulo 2^64 when it does not.
usize_sub(a, b, checks) ==
    IF a >= b THEN [kind |-> "ok", big |-> FALSE, lo |-> a - b]
    ELSE IF checks THEN [kind |-> "panic", big |-> FALSE, lo |-> 0]
    ELSE [kind |-> "ok", big |-> TRUE, lo |-> a - b]

\* usize n / d for d dividing 2^64: (2^64 + lo) / d = 2^64 / d + floor(lo / d).
usize_div(n, d) ==
    IF n.kind = "panic" THEN n ELSE [n EXCEPT !.lo = n.lo \div d]

\* i >= n for an index i far below 2^60.
usize_ge(i, n) == ~n.big /\ i >= n.lo

\* The 4-byte signatures of the tables in memory.
Sigs == {"HPET", "MCFG", "APIC"}

\* Mutant of xsdt_num_of_entries: the header is counted as pointer slots.
xsdt_num_of_entries_with_header(length, checks) ==
    usize_div(usize_sub(length, 0, checks), SizeOfPointer)

\* Xsdt::num_of_entries
xsdt_num_of_entries(length, checks) ==
    usize_div(usize_sub(length, SizeOfTableHeader, checks), SizeOfPointer)

\* Xsdt::entry(index) cast to a header reference: the header that pointer
\* slot `index`, at offset 36 + 8 * index of the table, leads to.
xsdt_entry(mem, idx) == [slot |-> idx, signature |-> mem[idx + 1]]

\* XsdtIterator::next
XsdtIterator_next(length, mem, idx, checks) ==
    LET n == xsdt_num_of_entries(length, checks)
    IN  IF n.kind = "panic"
        THEN [out |-> "panic", item |-> None, index |-> idx]
        ELSE IF usize_ge(idx, n)
        THEN [out |-> "None", item |-> None, index |-> idx]
        ELSE [out |-> "Some", item |-> Some(xsdt_entry(mem, idx)),
              index |-> idx + 1]

\* AcpiTable::new(header): expect_signature asserts, then the header is cast.
AcpiTable_new(tag, header) ==
    IF header.signature = tag
    THEN [out |-> "view", table |-> tag, header |-> header]
    ELSE [out |-> "panic", table |-> tag, header |-> header]

\* Declared lengths of the XSDT: shorter than its header, and zero to
\* MaxSlots pointer slots with and without a partial slot after them.
XsdtLengths ==
    {0, SizeOfTableHeader - 1} \cup
    { SizeOfTableHeader + SizeOfPointer * k + d :
        k \in 0..MaxSlots, d \in {0, SizeOfPointer - 1} }

\* The memory after the XSDT header, one slot longer than the longest table.
XsdtMemories == [1 .. (MaxSlots + 1) -> Sigs]

\* Xsdt::iter(), Xsdt::find_table(sig), AcpiRsdpStruct::hpet() and mcfg():
\* each begins with a fresh XsdtIterator.
XsdtBegin(o, sig) ==
    /\ xpc = "idle"
    /\ xop' = o
    /\ xsig' = sig
    /\ xpc' = "iter"
    /\ xindex' = 0
    /\ UNCHANGED <<usbVars, gfxVars,
                   bitsVars, overflow_checks, xlength, xmem, xout,
                   xslots, xnones, xfirst, xresult, tableVars, rectVars,
                   slotVars>>

xsdt_iter == XsdtBegin("iter", "")

find_table == \E sig \in Sigs : XsdtBegin("find_table", sig)

hpet == XsdtBegin("hpet", "HPET")

mcfg == XsdtBegin("mcfg", "MCFG")

\* What the caller of next() does with the header it was handed: iter()'s
\* consumer goes on; find() stops at the first header with the signature, and
\* hpet()/mcfg() map AcpiTable::new over what find_table returned.
XsdtConsume(r) ==
    CASE r.out = "panic" -> /\ xpc' = "panic"
                            /\ UNCHANGED xresult
      [] xop = "iter" -> UNCHANGED <<xpc, xresult>>
      [] r.out = "None" -> /\ xpc' = "done"
                           /\ xresult' = Some(None)
      [] r.out = "Some" /\ Unwrap(r.item).signature # xsig ->
                           UNCHANGED <<xpc, xresult>>
      [] xop = "find_table" -> /\ xpc' = "done"
                               /\ xresult' = Some(r.item)
      [] OTHER -> LET v == AcpiTable_new(xsig, Unwrap(r.item))
                  IN  /\ xpc' = IF v.out = "panic" THEN "panic" ELSE "done"
                      /\ xresult' = IF v.out = "panic" THEN xresult
                                    ELSE Some(Some(v))

\* One call of XsdtIterator::next and what its caller does with the result.
\* Only the slots of xmem are followed: a count that wrapped sends the
\* iterator on through all of memory.
XsdtNext ==
    /\ xpc = "iter"
    /\ xnones < MaxNones
    /\ xindex < Len(xmem)
    /\ LET r == XsdtIterator_next(xlength, xmem, xindex, overflow_checks)
       IN  /\ xindex' = r.index
           /\ xout' = IF r.out = "Some" THEN Append(xout, Unwrap(r.item))
                      ELSE xout
           /\ xslots' = IF r.out = "Some" THEN xslots \cup {xindex}
                        ELSE xslots
           /\ xnones' = IF r.out = "None" THEN xnones + 1 ELSE xnones
           /\ XsdtConsume(r)
    /\ UNCHANGED <<usbVars, gfxVars,
                   bitsVars, overflow_checks, xlength, xmem, xop,
                   xsig, xfirst, tableVars, rectVars, slotVars>>

\* A second Xsdt::iter() on the same table after the first was exhausted.
XsdtRestart ==
    /\ xop = "iter"
    /\ xpc = "iter"
    /\ xnones >= 1
    /\ xfirst = None
    /\ xfirst' = Some(xout)
    /\ xout' = <<>>
    /\ xindex' = 0
    /\ xnones' = 0
    /\ UNCHANGED <<usbVars, gfxVars,
                   bitsVars, overflow_checks, xlength, xmem, xop,
                   xsig, xslots, xpc, xresult, tableVars, rectVars, slotVars>>

\* AcpiMcfgDescriptor::num_of_entries
mcfg_num_of_entries(length, checks) ==
    usize_div(usize_sub(length, SizeOfMcfgDescriptor, checks), SizeOfEcamEntry)

\* AcpiMcfgDescriptor::entry(index): when Some, the offset in the table of
\* the EcamEntry the reference is to.
mcfg_entry(length, idx, checks) ==
    LET n == mcfg_num_of_entries(length, checks)
    IN  IF n.kind = "panic" THEN [out |-> "panic", offset |-> 0]
        ELSE IF usize_ge(idx, n) THEN [out |-> "None", offset |-> 0]
        ELSE [out |-> "Some",
              offset |-> SizeOfMcfgDescriptor + SizeOfEcamEntry * idx]

\* Declared lengths of the MCFG table: shorter than its 44 bytes, and zero
\* to MaxEntries entries with and without a partial entry after them.
McfgLengths ==
    {0, SizeOfTableHeader, SizeOfMcfgDescriptor - 1} \cup
    { SizeOfMcfgDescriptor + SizeOfEcamEntry * k + d :
        k \in 0..MaxEntries, d \in {0, SizeOfEcamEntry - 1} }

\* A call of AcpiMcfgDescriptor::entry(mindex).
McfgEntry ==
    /\ mentry = None
    /\ mentry' = Some(mcfg_entry(mlength, mindex, overflow_checks))
    /\ UNCHANGED <<usbVars, gfxVars,
                   bitsVars, overflow_checks, xsdtVars, mlength,
                   mindex, gid, gaddr, gres, hres, derefs, rectVars, slotVars>>

UnsupportedSpace == "ACPI Generic Address is not in system memory space"

\* Mutant of address_in_memory_space: I/O space (id 1) is accepted as well.
address_in_memory_space_or_io(id, address) ==
    IF id <= 1 THEN Ok(address) ELSE Err(UnsupportedSpace)

\* GenericAddress::address_in_memory_space; `address as usize` keeps the
\* value on the 64-bit target.
address_in_memory_space(id, address) ==
    IF id = 0 THEN Ok(address) ELSE Err(UnsupportedSpace)

\* AcpiHpetDescriptor::base_address: Result::map turns the address into a
\* reference to the registers there and passes an error on.
base_address(id, address) ==
    LET r == address_in_memory_space(id, address)
    IN  IF r.ok THEN Ok([registers_at |-> r.val]) ELSE r

\* address_space_id values and the nonzero, aligned addresses firmware gives.
SpaceIds == {0, 1, 2, 127, 255}
Addresses == {4096, 65536, 1048576}

\* A call of GenericAddress::address_in_memory_space.
AddressInMemorySpace ==
    /\ gres = None
    /\ gres' = Some(address_in_memory_space(gid, gaddr))
    /\ UNCHANGED <<usbVars, gfxVars,
                   bitsVars, overflow_checks, xsdtVars, mlength,
                   mindex, mentry, gid, gaddr, hres, derefs, rectVars,
                   slotVars>>

\* A call of AcpiHpetDescriptor::base_address: the reference is made from the
\* address, nothing is read or written through it.
BaseAddress ==
    /\ hres = None
    /\ hres' = Some(base_address(gid, gaddr))
    /\ derefs' = derefs
    /\ UNCHANGED <<usbVars, gfxVars,
                   bitsVars, overflow_checks, xsdtVars, mlength,
                   mindex, mentry, gid, gaddr, gres, rectVars, slotVars>>

\* ---------------------------------------- src/graphics.rs: ScalarRange, Rect
\* ScalarRange::new: None when start..end is empty.
ScalarRange_new(s, e) ==
    IF s >= e THEN None ELSE Some([start |-> s, end |-> e])

\* Mutant of ScalarRange_intersection: the hull of the two ranges.
ScalarRange_hull(a, b) ==
    ScalarRange_new(IF a.start < b.start THEN a.start ELSE b.start,
                    IF a.end > b.end THEN a.end ELSE b.end)

\* ScalarRange::intersection
ScalarRange_intersection(a, b) ==
    ScalarRange_new(IF a.start > b.start THEN a.start ELSE b.start,
                    IF a.end < b.end THEN a.end ELSE b.end)

\* Rect::new
Rect_new(x, y, w, h) ==
    IF w < 0 \/ h < 0 THEN None ELSE Some([x |-> x, y |-> y, w |-> w, h |-> h])

\* Rect::frame_ranges: both ScalarRange::new results are unwrapped, and
\* unwrap() of None panics.  x + w and y + h stay far from the ends of i64
\* for the coordinates drawn.
frame_ranges(r) ==
    LET fx == ScalarRange_new(r.x, r.x + r.w)
        fy == ScalarRange_new(r.y, r.y + r.h)
    IN  IF fx = None \/ fy = None THEN [out |-> "panic", fx |-> fx, fy |-> fy]
        ELSE [out |-> "ok", fx |-> fx, fy |-> fy]

\* Rect::intersection
Rect_intersection(a, b) ==
    LET f0 == frame_ranges(a)
        f1 == frame_ranges(b)
    IN  IF f0.out = "panic" \/ f1.out = "panic"
        THEN [out |-> "panic", rect |-> None]
        ELSE LET ix == ScalarRange_intersection(Unwrap(f0.fx), Unwrap(f1.fx))
                 iy == ScalarRange_intersection(Unwrap(f0.fy), Unwrap(f1.fy))
             IN  IF ix = None \/ iy = None
                 THEN [out |-> "None", rect |-> None]
                 ELSE [out |-> "Some",
                       rect |-> Some([x |-> Unwrap(ix).start,
                                      y |-> Unwrap(iy).start,
                                      w |-> Unwrap(ix).end - Unwrap(ix).start,
                                      h |-> Unwrap(iy).end - Unwrap(iy).start])]

\* Rect::contains_point
contains_point(r, x, y) ==
    LET f == frame_ranges(r)
    IN  IF f.out = "panic" THEN [out |-> "panic", inside |-> FALSE]
        ELSE [out |-> "ok",
              inside |-> /\ Unwrap(f.fx).start <= x /\ x < Unwrap(f.fx).end
                         /\ Unwrap(f.fy).start <= y /\ y < Unwrap(f.fy).end]

\* Arguments of Rect::new and of contains_point.
RectCoords == -1 .. 1
RectSizes == -1 .. 2

\* A call of Rect::new(rx, ry, rw, rh).
RectNew ==
    /\ rect = None
    /\ rect' = Some(Rect_new(rx, ry, rw, rh))
    /\ UNCHANGED <<usbVars, gfxVars,
                   bitsVars, acpiVars, rx, ry, rw, rh, rinter, rpoint,
                   slotVars>>

\* r.intersection(&r) on the Rect that Rect::new returned.
RectIntersection ==
    /\ rect # None
    /\ Unwrap(rect) # None
    /\ rinter = None
    /\ rinter' = Some(Rect_intersection(Unwrap(Unwrap(rect)),
                                        Unwrap(Unwrap(rect))))
    /\ UNCHANGED <<usbVars, gfxVars,
                   bitsVars, acpiVars, rx, ry, rw, rh, rect, rpoint,
                   slotVars>>

\* r.contains_point(x, y) on the Rect that Rect::new returned.
RectContainsPoint ==
    /\ rect # None
    /\ Unwrap(rect) # None
    /\ rpoint = None
    /\ \E x \in RectCoords, y \in RectCoords :
           rpoint' = Some(contains_point(Unwrap(Unwrap(rect)), x, y))
    /\ UNCHANGED <<usbVars, gfxVars,
                   bitsVars, acpiVars, rx, ry, rw, rh, rect, rinter,
                   slotVars>>

\* ------------------------------------ enumeration of two device slots at once
\* Each slot's enumeration is a task of the one cooperative executor: tasks are
\* switched only at an .await, a panic ends the kernel (the panic handler
\* leaves the emulator) and a loop without an .await keeps the executor in
\* that task.
Slots == {1, 2}

\* iter.collect(): next() called until it returns None, with no .await in
\* between.  A next() that yields without moving the cursor yields the same
\* record on every later call, so collect() does not return.
RECURSIVE collect(_, _, _)
collect(b, idx, acc) ==
    LET r == next(b, idx)
    IN  CASE r.out = "panic" -> [out |-> "panic", descriptors |-> acc]
          [] r.out = "None" -> [out |-> "done", descriptors |-> acc]
          [] r.index = idx -> [out |-> "hang", descriptors |-> acc]
          [] OTHER -> collect(b, r.index, Append(acc, Unwrap(r.desc)))

\* Descriptor chains a device in a slot may answer the second request with.
SlotChunkLists ==
    { << <<9, TypeConfig, 9>> >>,
      << <<9, TypeConfig, 9>>, <<9, TypeInterface, 9>> >>,
      << <<9, TypeConfig, 9>>, <<9, TypeConfig, 1>> >>,
      << <<9, TypeConfig, 1>> >>,
      << <<0, TypeConfig, 9>> >> }

SlotTotalLengths == { Len(Build(rs)) : rs \in SlotChunkLists }

\* A slot's task is polled for the first time and runs to its first .await.
SlotStart(s) ==
    /\ ~halted
    /\ spc[s] = "idle"
    /\ \E o \in {"device", "config"} :
          /\ sop' = [sop EXCEPT ![s] = o]
          /\ sreqs' = [sreqs EXCEPT ![s] =
                 << Req("request_descriptor",
                        IF o = "device" THEN TypeDevice ELSE TypeConfig, 0, 0,
                        IF o = "device" THEN SizeOfUsbDeviceDescriptor
                        ELSE SizeOfConfigDescriptor) >>]
    /\ spc' = [spc EXCEPT ![s] = "await1"]
    /\ UNCHANGED <<usbVars, gfxVars,
                   bitsVars, acpiVars, rectVars, sresps, sresult,
                   halted>>

\* `.await?` on a failed request in slot s.
SlotFail(s) ==
    /\ ~halted
    /\ spc[s] \in {"await1", "await2"}
    /\ \E e \in Errs :
          /\ sresps' = [sresps EXCEPT ![s] = Append(@, Err(e))]
          /\ sresult' = [sresult EXCEPT ![s] = Some(Err(e))]
    /\ spc' = [spc EXCEPT ![s] = "done"]
    /\ UNCHANGED <<usbVars, gfxVars,
                   bitsVars, acpiVars, rectVars, sop, sreqs, halted>>

\* request_device_descriptor in slot s resumes with its descriptor.
SlotDevice(s) ==
    /\ ~halted
    /\ sop[s] = "device" /\ spc[s] = "await1"
    /\ \E b \in Contents(sreqs[s][1].size) :
          /\ sresps' = [sresps EXCEPT ![s] = Append(@, Ok(b))]
          /\ sresult' = [sresult EXCEPT ![s] =
                 Some(copy_from_slice(SizeOfUsbDeviceDescriptor, b))]
    /\ spc' = [spc EXCEPT ![s] = "done"]
    /\ UNCHANGED <<usbVars, gfxVars,
                   bitsVars, acpiVars, rectVars, sop, sreqs, halted>>

\* request_config_descriptor_and_rest in slot s resumes with the header.
SlotConfigHeader(s) ==
    /\ ~halted
    /\ sop[s] = "config" /\ spc[s] = "await1"
    /\ \E tl \in SlotTotalLengths :
          LET b == ConfigHeader(tl)
              config_descriptor == copy_from_slice(SizeOfConfigDescriptor, b)
          IN  /\ sresps' = [sresps EXCEPT ![s] = Append(@, Ok(b))]
              /\ IF config_descriptor.ok
                 THEN /\ sreqs' = [sreqs EXCEPT ![s] = Append(@,
                             Req("request_descriptor", TypeConfig, 0, 0,
                                 second_size(config_descriptor.val)))]
                      /\ spc' = [spc EXCEPT ![s] = "await2"]
                      /\ sresult' = sresult
                 ELSE /\ sreqs' = sreqs
                      /\ spc' = [spc EXCEPT ![s] = "done"]
                      /\ sresult' = [sresult EXCEPT ![s] =
                             Some(Err(config_descriptor.err))]
    /\ UNCHANGED <<usbVars, gfxVars, bitsVars, acpiVars, rectVars, sop, halted>>

\* request_config_descriptor_and_rest in slot s resumes with the whole chain
\* and collects it before it returns or reaches another .await.
SlotConfigRest(s) ==
    /\ ~halted
    /\ sop[s] = "config" /\ spc[s] = "await2"
    /\ \E rs \in SlotChunkLists :
          /\ Len(Build(rs)) = sreqs[s][2].size
          /\ sresps' = [sresps EXCEPT ![s] = Append(@, Ok(Build(rs)))]
          /\ LET c == collect(Build(rs), 0, <<>>)
             IN  /\ spc' = [spc EXCEPT ![s] = c.out]
                 /\ sresult' = [sresult EXCEPT ![s] =
                        IF c.out = "done" THEN Some(Ok(c.descriptors))
                        ELSE None]
                 /\ halted' = (c.out # "done")
    /\ UNCHANGED <<usbVars, gfxVars, bitsVars, acpiVars, rectVars, sop, sreqs>>

slot_request == \E s \in Slots : SlotStart(s)
slot_request_failed == \E s \in Slots : SlotFail(s)
slot_device_descriptor == \E s \in Slots : SlotDevice(s)
slot_config_header == \E s \in Slots : SlotConfigHeader(s)
slot_config_rest == \E s \in Slots : SlotConfigRest(s)

\* --------------------------------------------- ScalarRange called directly
\* Arguments of ScalarRange::new.
RangeEnds == -1 .. 3

\* The intersections taken: a with b, b with a, a with itself.
Pairs == {"ab", "ba", "aa"}

\* ScalarRange::new(ns1, ne1), the range a.
ScalarRangeNewA ==
    /\ ra = None
    /\ ra' = Some(ScalarRange_new(ns1, ne1))
    /\ UNCHANGED <<usbVars, bitsVars, acpiVars, rectVars, slotVars, ns1, ne1,
                   ns2, ne2, rb, rinters, writerVars>>

\* ScalarRange::new(ns2, ne2), the range b.
ScalarRangeNewB ==
    /\ rb = None
    /\ rb' = Some(ScalarRange_new(ns2, ne2))
    /\ UNCHANGED <<usbVars, bitsVars, acpiVars, rectVars, slotVars, ns1, ne1,
                   ns2, ne2, ra, rinters, writerVars>>

\* a.intersection(&b), b.intersection(&a) or a.intersection(&a) on the ranges
\* that ScalarRange::new returned.
ScalarRangeIntersection ==
    /\ ra # None /\ Unwrap(ra) # None
    /\ rb # None /\ Unwrap(rb) # None
    /\ \E p \in Pairs :
          /\ rinters[p] = None
          /\ LET a == Unwrap(Unwrap(ra))
                 b == Unwrap(Unwrap(rb))
             IN  rinters' = [rinters EXCEPT ![p] =
                     Some(CASE p = "ab" -> ScalarRange_intersection(a, b)
                            [] p = "ba" -> ScalarRange_intersection(b, a)
                            [] OTHER -> ScalarRange_intersection(a, a))]
    /\ UNCHANGED <<usbVars, bitsVars, acpiVars, rectVars, slotVars, ns1, ne1,
                   ns2, ne2, ra, rb, writerVars>>

\* ------------------------------------------ graphics.rs: BitmapTextWriter
\* Width and height of a character cell: cursor_x += 8, cursor_y += 16.
GlyphWidth == 8
GlyphHeight == 16

\* Number of characters of the longest string written.
MaxStrLen == 3
\* Number of write_str calls on one writer.
MaxWrites == 3

\* Bitmap::is_in_x_range
is_in_x_range(w, ppl, px) == 0 <= px /\ px < min(w, ppl)

\* Bitmap::is_in_y_range
is_in_y_range(h, py) == 0 <= py /\ py < h

\* fill_rect: the four corner tests; the pixels it then writes are the ones
\* of the rectangle.
fill_rect(w, h, ppl, px, py, fw, fh) ==
    IF \/ ~is_in_x_range(w, ppl, px)
       \/ ~is_in_y_range(h, py)
       \/ ~is_in_x_range(w, ppl, px + fw - 1)
       \/ ~is_in_y_range(h, py + fh - 1)
    THEN Err("Out of Range")
    ELSE Ok(<<>>)

\* BitmapTextWriter::adjust_cursor_pos
adjust_cursor_pos(w, h, x, y) ==
    LET wrapped == x >= w
        x1 == IF wrapped THEN 0 ELSE x
        y1 == IF wrapped THEN y + GlyphHeight ELSE y
        over == y1 >= h
    IN  [x |-> x1, y |-> IF over THEN 0 ELSE y1, adjusted |-> wrapped \/ over]

\* The line-clearing fill_rect(buf, 0, 0, cursor_y, w, 16).or(Err(fmt::Error))?
\* and the state of write_str after it.
clear_line(st, w, h, ppl, c) ==
    LET f == fill_rect(w, h, ppl, 0, c.y, w, GlyphHeight)
    IN  [x |-> c.x, y |-> c.y, ok |-> f.ok,
         trail |-> Append(st.trail, <<c.x, c.y>>),
         fills |-> Append(st.fills,
                          [px |-> 0, py |-> c.y, w |-> w, h |-> GlyphHeight,
                           ok |-> f.ok])]

\* The body of `for c in s.chars()`: "nl" is '\n', "ch" any other character.
\* draw_font_fg ignores the result of every draw_point and leaves the cursor.
write_char(st, w, h, ppl, ch) ==
    IF ch = "nl"
    THEN clear_line(st, w, h, ppl,
                    adjust_cursor_pos(w, h, 0, st.y + GlyphHeight))
    ELSE LET c == adjust_cursor_pos(w, h, st.x + GlyphWidth, st.y)
         IN  IF c.adjusted THEN clear_line(st, w, h, ppl, c)
             ELSE [st EXCEPT !.x = c.x, !.y = c.y,
                             !.trail = Append(@, <<c.x, c.y>>)]

\* The loop of write_str: `?` returns at the first fill_rect that failed.
RECURSIVE write_chars(_, _, _, _, _)
write_chars(st, w, h, ppl, s) ==
    IF s = <<>> \/ ~st.ok THEN st
    ELSE write_chars(write_char(st, w, h, ppl, Head(s)), w, h, ppl, Tail(s))

\* The strings written and the bitmaps written to: pixels_per_line is the
\* width or more, as a frame buffer's is.
WriterChars == {"nl", "ch"}
WriterStrings == UNION { [1..n -> WriterChars] : n \in 0..MaxStrLen }
BitmapWidths == {8, 12, 16}
BitmapHeights == {8, 16, 20, 32}
LinePaddings == {0, 4}

\* <BitmapTextWriter as fmt::Write>::write_str(s)
write_str ==
    /\ writes < MaxWrites
    /\ \E s \in WriterStrings :
          LET st == write_chars([x |-> cursor_x, y |-> cursor_y, ok |-> TRUE,
                                 trail |-> <<>>, fills |-> <<>>],
                                bw, bh, bppl, s)
          IN  /\ cursor_x' = st.x
              /\ cursor_y' = st.y
              /\ wres' = Some(IF st.ok THEN Ok(<<>>) ELSE Err("fmt::Error"))
              /\ trail' = st.trail
              /\ fills' = st.fills
    /\ writes' = writes + 1
    /\ UNCHANGED <<usbVars, bitsVars, acpiVars, rectVars, slotVars, rangeVars,
                   bw, bh, bppl>>

\* ------------------------------------------------------------ specifications
Idle ==
    /\ op = "idle"
    /\ pc = "idle"
    /\ reqs = <<>>
    /\ resps = <<>>
    /\ buf = <<>>
    /\ recs = <<>>
    /\ index = 0
    /\ descriptors = <<>>
    /\ nread = 0
    /\ lastlen = None
    /\ lastindex = 0
    /\ truncated = FALSE
    /\ repeats = 0
    /\ firstPass = None
    /\ result = None
    /\ picked = None

\* No call of the bit, ACPI, Rect or two-slot operations has been made.
IdleBits ==
    /\ bvalue = {}
    /\ bbytes = <<>>
    /\ bshift = 0
    /\ bwidth = 0
    /\ bitsOut = None
    /\ leOut = None

XsdtFresh ==
    /\ xop = "idle"
    /\ xsig = ""
    /\ xindex = 0
    /\ xout = <<>>
    /\ xslots = {}
    /\ xpc = "idle"
    /\ xnones = 0
    /\ xfirst = None
    /\ xresult = None

TablesFresh ==
    /\ mentry = None
    /\ gres = None
    /\ hres = None
    /\ derefs = {}

IdleAcpi ==
    /\ overflow_checks = TRUE
    /\ xlength = SizeOfTableHeader
    /\ xmem = [i \in 1 .. (MaxSlots + 1) |-> "APIC"]
    /\ XsdtFresh
    /\ mlength = SizeOfMcfgDescriptor
    /\ mindex = 0
    /\ gid = 0
    /\ gaddr = 4096
    /\ TablesFresh

IdleRect ==
    /\ rx = 0 /\ ry = 0 /\ rw = 0 /\ rh = 0
    /\ rect = None
    /\ rinter = None
    /\ rpoint = None

IdleSlots ==
    /\ spc = [s \in Slots |-> "idle"]
    /\ sop = [s \in Slots |-> "idle"]
    /\ sreqs = [s \in Slots |-> <<>>]
    /\ sresps = [s \in Slots |-> <<>>]
    /\ sresult = [s \in Slots |-> None]
    /\ halted = FALSE

IdleRange ==
    /\ ns1 = 0 /\ ne1 = 0 /\ ns2 = 0 /\ ne2 = 0
    /\ ra = None
    /\ rb = None
    /\ rinters = [p \in Pairs |-> None]

\* BitmapTextWriter::new on a bitmap of one character cell.
IdleWriter ==
    /\ bw = 8 /\ bh = 16 /\ bppl = 8
    /\ cursor_x = 0
    /\ cursor_y = 0
    /\ writes = 0
    /\ wres = None
    /\ trail = <<>>
    /\ fills = <<>>

IdleGfx == IdleRange /\ IdleWriter

IdleUsb ==
    /\ Idle
    /\ input = <<>>
    /\ triple = <<0, 0, 0>>

Init ==
    /\ IdleUsb
    /\ IdleBits /\ IdleAcpi /\ IdleRect /\ IdleSlots /\ IdleGfx

Next ==
    \/ request_device_descriptor
    \/ request_device_descriptor_resume
    \/ request_string_descriptor
    \/ request_string_descriptor_resume
    \/ request_string_descriptor_zero
    \/ request_string_descriptor_zero_resume
    \/ request_config_descriptor_and_rest
    \/ request_config_descriptor_and_rest_resume1
    \/ request_config_descriptor_and_rest_resume2
    \/ request_hid_report
    \/ request_hid_report_resume
    \/ request_hid_report_descriptor
    \/ request_hid_report_descriptor_resume
    \/ StartDecode
    \/ IterNext
    \/ Redecode

Spec == Init /\ [][Next]_vars

\* The iterator alone, driven as collect() drives it: next() is called again
\* and again until it returns None.
NextIter ==
    \/ StartDecode
    \/ IterNext

LiveSpec == Init /\ [][NextIter]_vars /\ WF_vars(IterNext)

InitPick ==
    /\ Idle
    /\ input \in PickInputs
    /\ triple \in PickTriples
    /\ IdleBits /\ IdleAcpi /\ IdleRect /\ IdleSlots /\ IdleGfx

NextPick == Pick

SpecPick == InitPick /\ [][NextPick]_vars

\* extract_bits and extract_bits_from_le_bytes applied to drawn arguments.
InitBits ==
    /\ IdleUsb /\ IdleAcpi /\ IdleRect /\ IdleSlots /\ IdleGfx
    /\ bvalue \in BitValues
    /\ bbytes \in ByteSeqs
    /\ bshift \in Shifts
    /\ bwidth \in Widths
    /\ bitsOut = None
    /\ leOut = None

NextBits ==
    \/ ExtractBits
    \/ ExtractBitsFromLeBytes

SpecBits == InitBits /\ [][NextBits]_vars

\* The XSDT the firmware left in memory, and one operation on it.
InitXsdt ==
    /\ IdleUsb /\ IdleBits /\ IdleRect /\ IdleSlots /\ IdleGfx
    /\ overflow_checks \in BOOLEAN
    /\ xlength \in XsdtLengths
    /\ xmem \in XsdtMemories
    /\ XsdtFresh
    /\ mlength = SizeOfMcfgDescriptor
    /\ mindex = 0
    /\ gid = 0
    /\ gaddr = 4096
    /\ TablesFresh

NextXsdt ==
    \/ xsdt_iter
    \/ find_table
    \/ hpet
    \/ mcfg
    \/ XsdtNext
    \/ XsdtRestart

SpecXsdt == InitXsdt /\ [][NextXsdt]_vars

\* An MCFG table and an HPET Generic Address in memory, and calls on them.
InitTables ==
    /\ IdleUsb /\ IdleBits /\ IdleRect /\ IdleSlots /\ IdleGfx
    /\ overflow_checks \in BOOLEAN
    /\ xlength = SizeOfTableHeader
    /\ xmem = [i \in 1 .. (MaxSlots + 1) |-> "APIC"]
    /\ XsdtFresh
    /\ mlength \in McfgLengths
    /\ mindex \in 0 .. (MaxEntries + 1)
    /\ gid \in SpaceIds
    /\ gaddr \in Addresses
    /\ TablesFresh

NextTables ==
    \/ McfgEntry
    \/ AddressInMemorySpace
    \/ BaseAddress

SpecTables == InitTables /\ [][NextTables]_vars

\* Rect::new applied to drawn arguments, and calls on the Rect it returned.
InitRect ==
    /\ IdleUsb /\ IdleBits /\ IdleAcpi /\ IdleSlots /\ IdleGfx
    /\ rx \in RectCoords
    /\ ry \in RectCoords
    /\ rw \in RectSizes
    /\ rh \in RectSizes
    /\ rect = None
    /\ rinter = None
    /\ rpoint = None

NextRect ==
    \/ RectNew
    \/ RectIntersection
    \/ RectContainsPoint

SpecRect == InitRect /\ [][NextRect]_vars

\* ScalarRange::new applied to two drawn pairs, and intersections of the
\* ranges it returned.
InitRange ==
    /\ IdleUsb /\ IdleBits /\ IdleAcpi /\ IdleRect /\ IdleSlots /\ IdleWriter
    /\ ns1 \in RangeEnds
    /\ ne1 \in RangeEnds
    /\ ns2 \in RangeEnds
    /\ ne2 \in RangeEnds
    /\ ra = None
    /\ rb = None
    /\ rinters = [p \in Pairs |-> None]

NextRange ==
    \/ ScalarRangeNewA
    \/ ScalarRangeNewB
    \/ ScalarRangeIntersection

SpecRange == InitRange /\ [][NextRange]_vars

\* A BitmapTextWriter just made on a drawn bitmap, and writes to it.
InitWriter ==
    /\ IdleUsb /\ IdleBits /\ IdleAcpi /\ IdleRect /\ IdleSlots /\ IdleRange
    /\ bw \in BitmapWidths
    /\ bh \in BitmapHeights
    /\ \E pad \in LinePaddings : bppl = bw + pad
    /\ cursor_x = 0
    /\ cursor_y = 0
    /\ writes = 0
    /\ wres = None
    /\ trail = <<>>
    /\ fills = <<>>

NextWriter == write_str

SpecWriter == InitWriter /\ [][NextWriter]_vars

\* The enumeration sequences of two device slots, interleaved at their
\* suspension points.
NextSlots ==
    \/ slot_request
    \/ slot_request_failed
    \/ slot_device_descriptor
    \/ slot_config_header
    \/ slot_config_rest

SpecSlots == Init /\ [][NextSlots]_vars


\* ==================================================================== claims
\* The operation walked a descriptor chain to the end and returned Ok.
Decoded ==
    /\ op \in {"decode", "config"}
    /\ pc = "done"
    /\ IsSome(result)
    /\ Unwrap(result).ok

\* C1: request_config_descriptor_and_rest issues at most two requests, both
\* of type Config: the first with a 9-byte buffer; the second only after the
\* first completed with Ok, with a buffer whose size is the total_length field
\* (little-endian bytes 2..3) of the header the first returned; the iterator
\* walks exactly the second buffer, and an Ok return has issued both.
C1_TwoPhaseConfigFetch ==
    op = "config" =>
        /\ Len(reqs) <= 2
        /\ \A i \in 1..Len(reqs) :
              /\ reqs[i].fn = "request_descriptor"
              /\ reqs[i].desc_type = 2
        /\ Len(reqs) >= 1 => reqs[1].size = 9
        /\ Len(reqs) = 2 =>
              /\ resps[1].ok
              /\ reqs[2].size = resps[1].val[3] + 256 * resps[1].val[4]
        /\ pc \in {"collect", "panic"} \/ Decoded =>
              /\ Len(reqs) = 2 /\ Len(resps) = 2 /\ resps[2].ok
              /\ buf = resps[2].val
              /\ Len(buf) = reqs[2].size

\* C1 witness: a header declaring total_length = 26 was answered by a second
\* request of 26 bytes whose chain of three records was decoded.
C1_Witness ==
    /\ op = "config" /\ Decoded
    /\ total_length(resps[1].val) = 26
    /\ reqs[2].size = 26
    /\ Len(Unwrap(result).val) = 3

\* C2: in every enumeration operation a failed request is the last request
\* issued (none follows it, it is not issued again) and its error is the
\* operation's return value.
C2_FailFast ==
    \A i \in 1..Len(resps) :
        ~resps[i].ok =>
            /\ i = Len(reqs)
            /\ pc = "done"
            /\ result = Some(Err(resps[i].err))

\* C2 witness: the second Config request failed after the first succeeded.
C2_Witness ==
    /\ op = "config"
    /\ Len(resps) = 2
    /\ resps[1].ok
    /\ ~resps[2].ok

\* C3: DescriptorIterator never panics and never reads at or beyond the end
\* of the buffer.
C3_NeverPanics ==
    /\ pc # "panic"
    /\ lastindex + nread <= Len(buf)

\* C4: the bytes next() reads to build a yielded variant are at most desc_len
\* from the cursor, and the cursor advances by exactly desc_len.
C4_ReadsWithinDeclaredLength ==
    IsSome(lastlen) =>
        /\ nread <= Unwrap(lastlen)
        /\ index = lastindex + Unwrap(lastlen)

\* The variant the type tag selects, and the fixed size of its record.
ExpectedKind(t) ==
    CASE t = 2 -> "Config" [] t = 4 -> "Interface" [] t = 5 -> "Endpoint"
      [] t = 33 -> "Hid" [] OTHER -> "Unknown"
FixedSize(t) ==
    CASE t = 2 -> 9 [] t = 4 -> 9 [] t = 5 -> 7 [] t = 33 -> 9 [] OTHER -> 2

\* Every record is physically as long as it declares, and declares at least
\* the fixed size of its type.
WellFormed(rs) ==
    \A i \in 1..Len(rs) : rs[i][3] = rs[i][1] /\ rs[i][1] >= FixedSize(rs[i][2])

\* C5: a buffer of back-to-back well-formed records decodes to one variant per
\* record, in buffer order, the variant chosen by the type tag; the final
\* cursor is the buffer length; a second decode yields the same sequence.
C5_OneVariantPerRecord ==
    Decoded /\ WellFormed(recs) =>
        /\ Len(descriptors) = Len(recs)
        /\ \A i \in 1..Len(recs) :
              /\ descriptors[i].kind = ExpectedKind(recs[i][2])
              /\ descriptors[i].bytes[1] = recs[i][1]
              /\ descriptors[i].bytes[2] = recs[i][2]
        /\ index = Len(buf)
        /\ Unwrap(result).val = descriptors
        /\ IsSome(firstPass) => Unwrap(firstPass) = descriptors

\* C5 witness: Config, Interface, Hid, Endpoint back to back, decoded twice.
C5_Witness ==
    /\ op = "decode" /\ Decoded
    /\ IsSome(firstPass)
    /\ recs = << <<9, 2, 9>>, <<9, 33, 9>>, <<7, 5, 7>> >>
    /\ index = 25

\* C6: a chain in which a recognized record is truncated is not returned as a
\* successful result by request_config_descriptor_and_rest.
C6_TruncatedChainIsError ==
    op = "config" /\ pc = "done" /\ truncated => ~Unwrap(result).ok

\* The cursor is at a record whose declared length is 0.
ZeroLengthAtCursor ==
    /\ op \in {"decode", "config"}
    /\ index < Len(buf)
    /\ buf[index + 1] = 0

\* ... and that record decodes: its two-byte prefix is in the buffer and, for a
\* recognized type, so is its fixed size.
ZeroLengthDecodable ==
    /\ ZeroLengthAtCursor
    /\ Len(buf) - index >= 2
    /\ Len(buf) - index >= FixedSize(buf[index + 2])

Matches(j) ==
    /\ input[j].kind = "Interface"
    /\ <<input[j].bytes[6], input[j].bytes[7], input[j].bytes[8]>> = triple

ConfigsBefore(j) == { i \in 1..(j - 1) : input[i].kind = "Config" }
ConfigsAfter(j) == { i \in (j + 1)..Len(input) : input[i].kind = "Config" }
Max(S) == CHOOSE x \in S : \A y \in S : y <= x
Min(S) == CHOOSE x \in S : \A y \in S : x <= y

\* The call returned Some(..).
PickedSome == IsSome(picked) /\ IsSome(Unwrap(picked))
Picked == Unwrap(Unwrap(picked))

\* C8: the result is Some exactly when some Interface located after a Config
\* record has the queried triple.
C8_SomeIffMatchInAConfig ==
    IsSome(picked) =>
        (IsSome(Unwrap(picked)) <=>
            \E j \in 1..Len(input) : Matches(j) /\ ConfigsBefore(j) # {})

\* C9: the returned interface is the first Interface record in input order
\* whose triple equals the query.
C9_FirstMatchWins ==
    PickedSome =>
        Picked.interface = input[Min({ j \in 1..Len(input) : Matches(j) })]

\* The records after position j and before the next Config, neither Config
\* nor Interface, in input order.
Trailing(j) ==
    LET stop == IF ConfigsAfter(j) = {} THEN Len(input) + 1
                ELSE Min(ConfigsAfter(j))
    IN  SelectSeq(SubSeq(input, j + 1, stop - 1),
                  LAMBDA d : d.kind \notin {"Config", "Interface"})

\* C10: the returned config is the last Config before the returned interface
\* and the returned list is exactly the non-Config, non-Interface records
\* between the returned interface and the next Config (or the end).
C10_ConfigAndTrailingList ==
    PickedSome =>
        \E j \in 1..Len(input) :
            /\ input[j] = Picked.interface
            /\ input[j].kind = "Interface"
            /\ ConfigsBefore(j) # {}
            /\ Picked.config = input[Max(ConfigsBefore(j))]
            /\ Picked.desc_list = Trailing(j)

\* ------------------------------------------------------------ bits.rs claims
\* The bits of v from position s on, moved down by s, of which the w lowest
\* are kept: (v >> s) & (2^w - 1), with v >> s = 0 for s >= 64 and the mask
\* all ones for w >= 64.
ShiftedAndMasked(v, s, w) == {b - s : b \in {c \in v : c >= s /\ c - s < w}}

\* C11: for every 64-bit value, every shift and every width in 0..64,
\* extract_bits(value, shift, width) is the value shifted right by shift (0
\* when shift >= 64) masked to its width low bits, the mask being all 64 ones
\* when width >= 64.
C11_ExtractBitsIsShiftAndMask ==
    IsSome(bitsOut) =>
        Unwrap(bitsOut) = ShiftedAndMasked(bvalue, bshift, bwidth)

\* The one bits of the little-endian integer formed by the bytes.
LeBits(bytes) ==
    UNION { {8 * (i - 1) + k : k \in BitsOfByte(bytes[i])} : i \in 1..Len(bytes) }

\* C12: extract_bits_from_le_bytes(bytes, shift, width) is None if and only if
\* width = 0 or bytes has fewer than ceil((shift + width) / 8) bytes, and in
\* every other case it is the width-bit field starting at bit shift of the
\* little-endian integer the bytes form.
C12_LeBytesFieldOrNone ==
    IsSome(leOut) =>
        LET r == Unwrap(leOut)
            needed == (bshift + bwidth + 7) \div 8
        IN  /\ (r = None) <=> (bwidth = 0 \/ Len(bbytes) < needed)
            /\ r # None =>
                 Unwrap(r) = ShiftedAndMasked(LeBits(bbytes), bshift, bwidth)

\* ------------------------------------------------------------ acpi.rs claims
\* Offset in the XSDT of pointer slot i.
SlotOffset(i) == SizeOfTableHeader + SizeOfPointer * i

\* C13: whatever the declared length of the root table, also one below the
\* 36 header bytes, the walker computes its entry count without arithmetic
\* failure and reads no pointer slot at or beyond offset `declared length`.
C13_CountWithinDeclaredLength ==
    /\ xpc # "panic"
    /\ \A i \in xslots : SlotOffset(i) < xlength

\* (L - 36) / 8 for a declared length L of at least 36.
SlotCount == (xlength - SizeOfTableHeader) \div SizeOfPointer

\* C14: for a root table of declared length L >= 36 every iter() yields
\* exactly (L - 36) / 8 header references, the i-th being the target of
\* pointer slot i, then None on every further next(); a second iter() on the
\* same table yields the same sequence.
C14_IterYieldsEverySlotOnce ==
    (xop = "iter" /\ xlength >= SizeOfTableHeader) =>
        /\ xpc # "panic"
        /\ Len(xout) <= SlotCount
        /\ \A i \in 1..Len(xout) :
              xout[i] = [slot |-> i - 1, signature |-> xmem[i]]
        /\ xnones >= 1 => Len(xout) = SlotCount
        /\ (IsSome(xfirst) /\ xnones >= 1) => xout = Unwrap(xfirst)

\* A table of three slots iterated twice, next() called again after the end.
C14_Witness ==
    /\ xop = "iter"
    /\ xlength = SlotOffset(3) + SizeOfPointer - 1
    /\ IsSome(xfirst)
    /\ Len(xout) = 3
    /\ xnones = MaxNones
    /\ xout[1].signature # xout[2].signature

\* The pointer slots of the table whose header has signature sig.
SlotsInTable ==
    IF xlength >= SizeOfTableHeader THEN 0 .. (SlotCount - 1) ELSE {}

MatchingSlots(sig) == {i \in SlotsInTable : xmem[i + 1] = sig}

\* C15: find_table(sig) returns the header at the lowest pointer-slot index
\* whose signature equals sig, and None exactly when no slot's header has it.
C15_FindTableFirstMatch ==
    xop = "find_table" =>
        /\ xpc # "panic"
        /\ IsSome(xresult) =>
             Unwrap(xresult) =
                 IF MatchingSlots(xsig) = {} THEN None
                 ELSE Some([slot |-> Min(MatchingSlots(xsig)),
                            signature |-> xsig])

\* C18: for every XSDT content hpet() (resp. mcfg()) returns None when no entry
\* carries the signature HPET (resp. MCFG), otherwise a typed view of a header
\* with that signature, and the expect_signature assertion of the cast never
\* fails on this path.
C18_MissingTableIsNone ==
    xop \in {"hpet", "mcfg"} =>
        /\ xpc # "panic"
        /\ IsSome(xresult) =>
             IF MatchingSlots(xsig) = {} THEN Unwrap(xresult) = None
             ELSE /\ Unwrap(xresult) # None
                  /\ Unwrap(Unwrap(xresult)).out = "view"
                  /\ Unwrap(Unwrap(xresult)).table = xsig
                  /\ Unwrap(Unwrap(xresult)).header.signature = xsig
                  /\ Unwrap(Unwrap(xresult)).header.slot \in MatchingSlots(xsig)

\* C16: for an MCFG table num_of_entries() is (declared_length - 44) / 16,
\* entry(i) is Some if and only if 0 <= i < num_of_entries(), and when Some it
\* refers to the 16-byte entry at offset 44 + 16 * i, inside the declared
\* length.
C16_McfgEntriesWithinLength ==
    IsSome(mentry) =>
        LET r == Unwrap(mentry)
            n == mcfg_num_of_entries(mlength, overflow_checks)
            count == (mlength - SizeOfMcfgDescriptor) \div SizeOfEcamEntry
        IN  /\ r.out # "panic"
            /\ n = [kind |-> "ok", big |-> FALSE, lo |-> count]
            /\ (r.out = "Some") <=> (mindex < count)
            /\ r.out = "Some" =>
                 /\ r.offset = SizeOfMcfgDescriptor + SizeOfEcamEntry * mindex
                 /\ r.offset + SizeOfEcamEntry <= mlength

\* C17: address_in_memory_space returns Ok(address) exactly when
\* address_space_id is 0 and the unsupported-space error for every other id;
\* base_address returns a register reference at that address only in the
\* first case and the same error otherwise, and nothing is read or written
\* through the address.
C17_MemorySpaceOnly ==
    /\ IsSome(gres) =>
         Unwrap(gres) = IF gid = 0 THEN Ok(gaddr) ELSE Err(UnsupportedSpace)
    /\ IsSome(hres) =>
         Unwrap(hres) = IF gid = 0 THEN Ok([registers_at |-> gaddr])
                        ELSE Err(UnsupportedSpace)
    /\ derefs = {}

\* Both functions were called on an address in I/O space (id 1).
C17_Witness ==
    /\ gid = 1
    /\ IsSome(gres) /\ ~Unwrap(gres).ok
    /\ IsSome(hres) /\ Unwrap(hres).err = UnsupportedSpace

\* ------------------------------------------------------- two device slots
\* C19: when the enumeration sequences of two slots are interleaved at their
\* suspension points, each issues the requests with the buffer sizes, and
\* returns the result, it would alone: its requests follow from its own
\* completions, and a request or decode failure of the other slot never
\* leaves it suspended with nothing left to resume it.
C19_SlotsDoNotInterfere ==
    \A s \in Slots :
        /\ Len(sreqs[s]) >= 1 =>
             sreqs[s][1].size = IF sop[s] = "device"
                                THEN SizeOfUsbDeviceDescriptor
                                ELSE SizeOfConfigDescriptor
        /\ Len(sreqs[s]) >= 2 =>
             sreqs[s][2].size = total_length(sresps[s][1].val)
        /\ spc[s] \in {"await1", "await2"} => ~halted

\* ------------------------------------------------------------- Rect claims
\* C20: for every Rect r that Rect::new returned, zero width or height
\* included, r.intersection(&r) is Some(r) and contains_point returns without
\* panicking.
C20_SelfIntersectionIsSelf ==
    /\ IsSome(rinter) =>
         Unwrap(rinter) = [out |-> "Some", rect |-> Unwrap(rect)]
    /\ IsSome(rpoint) => Unwrap(rpoint).out # "panic"

\* ------------------------------------------------------ ScalarRange claims
\* The integers of the half-open range r.
Members(r) == {i \in (r.start) .. (r.end - 1) : TRUE}

\* What the claim says the intersection of a and b is.
SharedRange(a, b) ==
    IF Members(a) \cap Members(b) = {} THEN None
    ELSE Some([start |-> IF a.start > b.start THEN a.start ELSE b.start,
               end |-> IF a.end < b.end THEN a.end ELSE b.end])

\* new(s, e) returned Some of start..end exactly when s < e.
SomeIffNonEmpty(r, s, e) ==
    IsSome(r) =>
        Unwrap(r) = IF s < e THEN Some([start |-> s, end |-> e]) ELSE None

\* C21: ScalarRange::new(start, end) is Some exactly when start < end; for
\* ranges a and b, a.intersection(b) is Some([max(starts), min(ends))) exactly
\* when they share an integer and None when they are disjoint or adjacent, it
\* equals b.intersection(a), and a.intersection(a) equals a.
C21_RangeIntersection ==
    /\ SomeIffNonEmpty(ra, ns1, ne1)
    /\ SomeIffNonEmpty(rb, ns2, ne2)
    /\ IsSome(rinters["ab"]) =>
         Unwrap(rinters["ab"]) =
             SharedRange(Unwrap(Unwrap(ra)), Unwrap(Unwrap(rb)))
    /\ IsSome(rinters["ba"]) =>
         Unwrap(rinters["ba"]) =
             SharedRange(Unwrap(Unwrap(ra)), Unwrap(Unwrap(rb)))
    /\ (IsSome(rinters["ab"]) /\ IsSome(rinters["ba"])) =>
         rinters["ab"] = rinters["ba"]
    /\ IsSome(rinters["aa"]) => Unwrap(rinters["aa"]) = Unwrap(ra)

\* Two different overlapping ranges, intersected in both orders and a with
\* itself.
C21_Witness ==
    /\ ns1 = 0 /\ ne1 = 2 /\ ns2 = 1 /\ ne2 = 3
    /\ \A p \in Pairs : IsSome(rinters[p])
    /\ Unwrap(rinters["ab"]) = Some([start |-> 1, end |-> 2])

\* ------------------------------------------------- BitmapTextWriter claims
\* C22: for a bitmap of positive width and height, after every character
\* write_str processed the cursor satisfies 0 <= cursor_x < width and
\* 0 <= cursor_y < height, and write_str returns Ok: the line-clearing
\* fill_rect after a newline or wrap is always inside the bitmap.
C22_CursorInsideAndOk ==
    (bw > 0 /\ bh > 0) =>
        /\ \A i \in 1..Len(trail) :
              /\ 0 <= trail[i][1] /\ trail[i][1] < bw
              /\ 0 <= trail[i][2] /\ trail[i][2] < bh
        /\ IsSome(wres) => Unwrap(wres).ok
        /\ \A i \in 1..Len(fills) :
              /\ fills[i].ok
              /\ 0 <= fills[i].px /\ fills[i].px + fills[i].w <= bw
              /\ 0 <= fills[i].py /\ fills[i].py + fills[i].h <= bh

====
